---------------------------- MODULE Spec2Model ----------------------------
(***************************************************************************)
(* Model of bpm.py: analyze_breathing_rate, the one-shot pipeline that     *)
(* reads an RR-interval log, detects peaks of the per-record mean RR,      *)
(* turns the time between consecutive peaks into breaths per minute and    *)
(* writes a CSV sorted by time of day.                                     *)
(*                                                                         *)
(* Representation.                                                         *)
(*  - An absolute instant is a whole number of ticks since the epoch,      *)
(*    TicksPerSec ticks to the second, so that fractional epoch seconds    *)
(*    (1.5, 10.5, ...) are representable.                                  *)
(*  - A record of the JSON input is [ts, kind, rr]: kind = "list" when the *)
(*    record's rr is a JSON list (rr holds it), "null" when rr is null or  *)
(*    missing from this record.  Lists are drawn with whole-number means.  *)
(*  - The HH:MM:SS string is the triple <<hh, mm, ss>>; the order of the   *)
(*    zero-padded strings is the lexicographic order of the triples.       *)
(*  - bpm is kept in tenths (240 is 24.0), percentiles in hundredths.      *)
(***************************************************************************)
EXTENDS Integers, Sequences, FiniteSets

VARIABLES
    exists,               \* os.path.exists(json_file_path)
    parseable,            \* json.load and DataFrame construction succeed
    data,                 \* the records of the input file
    pc,                   \* position in analyze_breathing_rate
    exit_status,          \* "running", "success" or "failure"
    rr_mean,              \* df['rr_mean']
    datetime,             \* df['datetime'] (absolute instants)
    time,                 \* df['time'] (formatted)
    clean_rr,
    clean_time,
    clean_time_formatted,
    peaks,                \* indices into the clean arrays, 1-based
    peak_time_diffs,      \* whole seconds
    valid_mask,
    valid_intervals,
    valid_peak_indices,   \* 1-based positions in peaks
    valid_times,
    order,                \* the indexer sort_values computes
    output_df,            \* rows [time, bpm], bpm rounded, in tenths
    csv_written,          \* the output file exists
    csv_rows              \* its data rows (below the header time,bpm)

vars == <<exists, parseable, data, pc, exit_status, rr_mean, datetime, time,
          clean_rr, clean_time, clean_time_formatted, peaks, peak_time_diffs,
          valid_mask, valid_intervals, valid_peak_indices, valid_times,
          order, output_df, csv_written, csv_rows>>

-----------------------------------------------------------------------------
(* Bounds of the model *)

TicksPerSec == 2

MaxRecords == 9

MaxSessionRecords == 19

\* up to a third of the records of a short recording are special
MaxSpecial == MaxRecords \div 3

(* Program constants *)

Percentile == 60

Distance == 5

min_interval == 2

max_interval == 10

NaN == -1

UtcOffsetSec == -25200

SecondsPerDay == 86400

-----------------------------------------------------------------------------
(* Helpers *)

Range(s) == {s[i] : i \in DOMAIN s}

RECURSIVE Sum(_)
Sum(s) == IF s = <<>> THEN 0 ELSE Head(s) + Sum(Tail(s))

RECURSIVE SetToSortedSeq(_)
SetToSortedSeq(S) ==
    IF S = {} THEN <<>>
    ELSE LET m == CHOOSE x \in S : \A y \in S : x <= y
         IN <<m>> \o SetToSortedSeq(S \ {m})

Abs(x) == IF x < 0 THEN -x ELSE x

\* np.mean of a non-empty list
Mean(x) == Sum(x) \div Len(x)

\* lambda of line 40
RrMeanOf(rec) ==
    IF rec.kind = "list" /\ Len(rec.rr) > 0 THEN Mean(rec.rr) ELSE NaN

\* strftime('%H:%M:%S') of the instant converted to US/Pacific
FormatTime(t) ==
    LET s == ((t \div TicksPerSec) + UtcOffsetSec) % SecondsPerDay
    IN <<s \div 3600, (s % 3600) \div 60, s % 60>>

\* order of two HH:MM:SS strings
TimeLess(a, b) ==
    \/ a[1] < b[1]
    \/ a[1] = b[1] /\ a[2] < b[2]
    \/ a[1] = b[1] /\ a[2] = b[2] /\ a[3] < b[3]

TimeLeq(a, b) == a = b \/ TimeLess(a, b)

\* boolean-mask indexing: s[mask]
Masked(s, mask) ==
    LET idx == SetToSortedSeq({i \in DOMAIN s : mask[i]})
    IN [k \in 1..Len(idx) |-> s[idx[k]]]


\* the permutations of 1..n, as sequences
Perms(n) ==
    {f \in [1..n -> 1..n] : \A i, j \in 1..n : i # j => f[i] # f[j]}

-----------------------------------------------------------------------------
(* scipy.signal.find_peaks(x, height = np.percentile(x, 60), distance = 5) *)

\* k-th smallest value of x (k from 1): the k-th entry of sorted(x)
KthSmallest(x, k) ==
    CHOOSE v \in Range(x) :
        /\ Cardinality({i \in DOMAIN x : x[i] < v}) < k
        /\ k <= Cardinality({i \in DOMAIN x : x[i] <= v})

\* np.percentile(x, q), linear interpolation, in hundredths; x not empty.
\* Virtual index q/100 * (n-1) into the sorted values, exact arithmetic.
PercentileOf(x, q) ==
    LET pos == q * (Len(x) - 1)
        lo  == pos \div 100
        rem == pos % 100
        a   == KthSmallest(x, lo + 1)
        b   == IF rem = 0 THEN a ELSE KthSmallest(x, lo + 2)
    IN 100 * a + rem * (b - a)

\* _local_maxima_1d: the midpoint of every plateau that is strictly higher
\* than both neighbours; the first and last sample are never maxima.
LocalMaxima(x) ==
    LET n == Len(x)
        IsPlateau(l, r) ==
            /\ x[l - 1] < x[l]
            /\ \A k \in l..r : x[k] = x[l]
            /\ x[r + 1] < x[r]
    IN {((l - 1) + (r - 1)) \div 2 + 1 :
           <<l, r>> \in {lr \in (2..(n - 1)) \X (2..(n - 1)) :
                            lr[1] <= lr[2] /\ IsPlateau(lr[1], lr[2])}}

\* (variant: no height condition)
SelectAnyHeight(x, cand, hmin) == cand

\* _select_by_property(peak_heights, hmin, None): keep pmin <= height
SelectByHeight(x, cand, hmin) ==
    {p \in cand : hmin <= 100 * x[p]}

\* np.argsort(priority): the orders that sort the candidates' heights
\* ascending.  The default kind is not stable, so candidates of equal
\* height may come in either order.
PriorityOrders(x, c) ==
    {f \in Perms(Len(c)) :
        \A i, j \in 1..Len(c) : i < j => x[c[f[i]]] <= x[c[f[j]]]}

\* (variant: candidates are visited from right to left, whatever their
\* height)
RECURSIVE SelectByPositionDistance(_, _, _, _, _)
SelectByPositionDistance(c, prio, distance, i, keep) ==
    IF i = 0 THEN keep
    ELSE IF i \notin keep
         THEN SelectByPositionDistance(c, prio, distance, i - 1, keep)
         ELSE SelectByPositionDistance(c, prio, distance, i - 1,
                 keep \ {k \in DOMAIN c :
                            k # i /\ Abs(c[k] - c[i]) < distance})

\* _select_by_peak_distance: from the highest priority down, a candidate
\* still kept removes every other candidate closer than distance.
RECURSIVE SelectByPeakDistance(_, _, _, _, _)
SelectByPeakDistance(c, prio, distance, i, keep) ==
    IF i = 0 THEN keep
    ELSE LET j == prio[i]
         IN IF j \notin keep
            THEN SelectByPeakDistance(c, prio, distance, i - 1, keep)
            ELSE SelectByPeakDistance(c, prio, distance, i - 1,
                    keep \ {k \in DOMAIN c :
                               k # j /\ Abs(c[k] - c[j]) < distance})

\* the candidates find_peaks hands to the distance step, ascending
Candidates(x) ==
    SetToSortedSeq(SelectByHeight(x, LocalMaxima(x),
                                  PercentileOf(x, Percentile)))

\* the peaks find_peaks returns for one priority order
FindPeaks(x, prio) ==
    LET c    == Candidates(x)
        keep == SelectByPeakDistance(c, prio, Distance, Len(c), DOMAIN c)
    IN SetToSortedSeq({c[k] : k \in keep})

-----------------------------------------------------------------------------
(* Interval and rate arithmetic *)

\* np.diff(peak_times).astype('timedelta64[s]'): whole seconds, the
\* fraction of a second dropped
WholeSeconds(ticks) == ticks \div TicksPerSec

\* np.round(a / b, 1) in tenths: nearest, halves to even
RoundTenths(a, b) ==
    LET n == 10 * a
        q == n \div b
        r == n % b
    IN IF 2 * r < b THEN q
       ELSE IF 2 * r > b THEN q + 1
       ELSE IF q % 2 = 0 THEN q ELSE q + 1

\* sort_values('time'): the indexers that sort the keys ascending.  The
\* default kind (quicksort) is not stable, so equal keys may come in
\* either order.
SortOrders(keys) ==
    {f \in Perms(Len(keys)) :
        \A i, j \in 1..Len(keys) : i < j => TimeLeq(keys[f[i]], keys[f[j]])}

-----------------------------------------------------------------------------
(* Input files *)

\* 21:33:00 US/Pacific, the hour of the default log H10_log_20250611_2133
EveningStart == (SecondsPerDay + 16380) * TicksPerSec

\* ten seconds before midnight US/Pacific
BeforeMidnight == (SecondsPerDay - UtcOffsetSec - 10) * TicksPerSec

DayTicks == SecondsPerDay * TicksPerSec

Baseline == [kind |-> "list", rr |-> <<1>>]

\* elevated samples (means 2, 3 and 4) and samples without RR data
SpecialRR ==
    {[kind |-> "list", rr |-> <<1, 3>>],
     [kind |-> "list", rr |-> <<3>>],
     [kind |-> "list", rr |-> <<2, 6>>],
     [kind |-> "list", rr |-> <<>>],
     [kind |-> "null", rr |-> <<>>]}

\* n records sampled every step ticks from start, the recording paused for
\* pause more ticks after record pauseAt; the records in DOMAIN special
\* carry special[i], the others the baseline
Recording(n, start, step, pauseAt, pause, special) ==
    [i \in 1..n |->
        [ts   |-> start + (i - 1) * step + (IF i > pauseAt THEN pause ELSE 0),
         kind |-> IF i \in DOMAIN special THEN special[i].kind
                  ELSE Baseline.kind,
         rr   |-> IF i \in DOMAIN special THEN special[i].rr
                  ELSE Baseline.rr]]

\* where a long recording may carry an elevated sample
Sites == {2, 7, 12, 17, 18}

-----------------------------------------------------------------------------
(* analyze_breathing_rate *)

\* the state when analyze_breathing_rate is entered
Start(ex, pa, d) ==
    /\ exists = ex
    /\ parseable = pa
    /\ data = d
    /\ pc = "start"
    /\ exit_status = "running"
    /\ rr_mean = <<>>
    /\ datetime = <<>>
    /\ time = <<>>
    /\ clean_rr = <<>>
    /\ clean_time = <<>>
    /\ clean_time_formatted = <<>>
    /\ peaks = <<>>
    /\ peak_time_diffs = <<>>
    /\ valid_mask = <<>>
    /\ valid_intervals = <<>>
    /\ valid_peak_indices = <<>>
    /\ valid_times = <<>>
    /\ order = <<>>
    /\ output_df = <<>>
    /\ csv_written = FALSE
    /\ csv_rows = <<>>

\* a missing file, or one that does not parse
BadFile ==
    \/ Start(FALSE, FALSE, <<>>)
    \/ Start(TRUE, FALSE, <<>>)

\* short recordings at 1 Hz with up to MaxSpecial special records anywhere
Init ==
    \/ BadFile
    \/ \E n \in 0..MaxRecords :
         \E S \in {T \in SUBSET (1..n) : Cardinality(T) <= MaxSpecial} :
           \E f \in [S -> SpecialRR] :
             Start(TRUE, TRUE,
                   Recording(n, EveningStart, TicksPerSec, 0, 0, f))

\* long recordings: elevated samples at some of the sites, a sampling period
\* of half a second to two seconds, started in the evening or just before
\* midnight, with at most one pause: of one tick, or such that record 18
\* falls a whole day after record 7; or a recording without any RR data
InitSession ==
    \/ BadFile
    \/ \E S \in SUBSET Sites :
         \E step \in 1..(2 * TicksPerSec) :
           \E start \in {EveningStart, BeforeMidnight} :
             \E pz \in {<<0, 0>>} \cup
                       ((1..(MaxSessionRecords - 1))
                            \X {1, DayTicks - 11 * step}) :
               Start(TRUE, TRUE,
                     Recording(MaxSessionRecords, start, step, pz[1], pz[2],
                               [i \in S |-> [kind |-> "list", rr |-> <<3>>]]))
    \/ \E step \in 1..(2 * TicksPerSec) :
         Start(TRUE, TRUE,
               Recording(MaxSessionRecords, EveningStart, step, 0, 0,
                         [i \in 1..MaxSessionRecords |->
                             [kind |-> "null", rr |-> <<>>]]))

input == <<exists, parseable, data>>

frame == <<rr_mean, datetime, time>>

clean == <<clean_rr, clean_time, clean_time_formatted>>

intervals == <<peak_time_diffs, valid_mask, valid_intervals,
               valid_peak_indices, valid_times>>

out == <<order, output_df, csv_written, csv_rows>>

\* sys.exit(1): lines 27-29 and the handler of lines 110-112
Abort ==
    /\ pc' = "exited"
    /\ exit_status' = "failure"
    /\ UNCHANGED <<input, frame, clean, peaks, intervals, out>>

\* lines 27-29
MissingInput ==
    /\ pc = "start"
    /\ ~exists
    /\ Abort

\* lines 33-37: json.load raises, or the frame has no 'rr' column
LoadError ==
    /\ pc = "start"
    /\ exists
    /\ (~parseable \/ data = <<>>)
    /\ Abort

\* lines 33-47
Load ==
    /\ pc = "start"
    /\ exists
    /\ parseable
    /\ data # <<>>
    /\ rr_mean' = [i \in DOMAIN data |-> RrMeanOf(data[i])]
    /\ datetime' = [i \in DOMAIN data |-> data[i].ts]
    /\ time' = [i \in DOMAIN data |-> FormatTime(data[i].ts)]
    /\ pc' = "loaded"
    /\ UNCHANGED <<input, exit_status, clean, peaks, intervals, out>>

\* (variant: the mask is not applied to the timestamp columns)
CleanUnmaskedTimes ==
    /\ pc = "loaded"
    /\ LET clean_mask == [i \in DOMAIN rr_mean |-> rr_mean[i] # NaN]
           n == Len(Masked(rr_mean, clean_mask))
       IN /\ clean_rr' = Masked(rr_mean, clean_mask)
          /\ clean_time' = SubSeq(datetime, 1, n)
          /\ clean_time_formatted' = SubSeq(time, 1, n)
    /\ pc' = "cleaned"
    /\ UNCHANGED <<input, exit_status, frame, peaks, intervals, out>>

\* lines 50-55
Clean ==
    /\ pc = "loaded"
    /\ LET clean_mask == [i \in DOMAIN rr_mean |-> rr_mean[i] # NaN]
       IN /\ clean_rr' = Masked(rr_mean, clean_mask)
          /\ clean_time' = Masked(datetime, clean_mask)
          /\ clean_time_formatted' = Masked(time, clean_mask)
    /\ pc' = "cleaned"
    /\ UNCHANGED <<input, exit_status, frame, peaks, intervals, out>>

\* lines 59-63 on a non-empty signal
DetectPeaks ==
    /\ pc = "cleaned"
    /\ clean_rr # <<>>
    /\ \E prio \in PriorityOrders(clean_rr, Candidates(clean_rr)) :
           peaks' = FindPeaks(clean_rr, prio)
    /\ pc' = "peaks"
    /\ UNCHANGED <<input, exit_status, frame, clean, intervals, out>>

\* lines 59-63 on an empty signal: np.percentile of an empty array raises
\* IndexError, or (older numpy) returns nan and find_peaks finds nothing
DetectPeaksEmpty ==
    /\ pc = "cleaned"
    /\ clean_rr = <<>>
    /\ \/ Abort
       \/ /\ peaks' = <<>>
          /\ pc' = "peaks"
          /\ UNCHANGED <<input, exit_status, frame, clean, intervals, out>>

\* np.arange(1, len(peaks)): interval k (from 1) is indexed by its later
\* peak, peaks[k + 1]
IntervalPeakEarlier(k) == k

IntervalPeak(k) == k + 1

\* lines 66-83
Intervals ==
    /\ pc = "peaks"
    /\ LET peak_times == [k \in DOMAIN peaks |-> clean_time[peaks[k]]]
           diffs == [k \in 1..(Len(peaks) - 1) |->
                        WholeSeconds(peak_times[k + 1] - peak_times[k])]
           mask  == [k \in DOMAIN diffs |->
                        diffs[k] >= min_interval /\ diffs[k] <= max_interval]
           later == [k \in DOMAIN diffs |-> IntervalPeak(k)]
           vpi   == Masked(later, mask)
       IN /\ peak_time_diffs' = diffs
          /\ valid_mask' = mask
          /\ valid_intervals' = Masked(diffs, mask)
          /\ valid_peak_indices' = vpi
          /\ valid_times' =
                 [k \in DOMAIN vpi |-> clean_time_formatted[peaks[vpi[k]]]]
    /\ pc' = "intervals"
    /\ UNCHANGED <<input, exit_status, frame, clean, peaks, out>>

\* lines 85-88: np.min of an empty array raises ValueError
ReportError ==
    /\ pc = "intervals"
    /\ valid_intervals = <<>>
    /\ Abort

\* lines 85-88
Report ==
    /\ pc = "intervals"
    /\ valid_intervals # <<>>
    /\ pc' = "reported"
    /\ UNCHANGED <<input, exit_status, frame, clean, peaks, intervals, out>>

\* lines 91-97
BuildAndSort ==
    /\ pc = "reported"
    /\ \E ord \in SortOrders(valid_times) :
           /\ order' = ord
           /\ output_df' =
                  [i \in DOMAIN ord |->
                      [time |-> valid_times[ord[i]],
                       bpm  |-> RoundTenths(60, valid_intervals[ord[i]])]]
    /\ pc' = "sorted"
    /\ UNCHANGED <<input, exit_status, frame, clean, peaks, intervals,
                   csv_written, csv_rows>>

\* line 100
Save ==
    /\ pc = "sorted"
    /\ csv_written' = TRUE
    /\ csv_rows' = output_df
    /\ pc' = "saved"
    /\ UNCHANGED <<input, exit_status, frame, clean, peaks, intervals,
                   order, output_df>>

\* (variant: a statement after the save raises)
FinishRaises ==
    /\ pc = "saved"
    /\ Abort

\* lines 101-108, then main's lines 139-140
Finish ==
    /\ pc = "saved"
    /\ pc' = "exited"
    /\ exit_status' = "success"
    /\ UNCHANGED <<input, frame, clean, peaks, intervals, out>>

Next ==
    \/ MissingInput
    \/ LoadError
    \/ Load
    \/ Clean
    \/ DetectPeaks
    \/ DetectPeaksEmpty
    \/ Intervals
    \/ ReportError
    \/ Report
    \/ BuildAndSort
    \/ Save
    \/ Finish

Spec == Init /\ [][Next]_vars

SpecSession == InitSession /\ [][Next]_vars

-----------------------------------------------------------------------------
(* Vocabulary of the properties *)

\* the input was loaded into the frame (Load has run)
Loaded == rr_mean # <<>>

\* the clean arrays have been computed
CleanDone == Loaded /\ pc # "loaded"

\* the records whose rr is a non-empty list
NonEmpty == {i \in DOMAIN data : data[i].kind = "list" /\ data[i].rr # <<>>}

\* position of record i among the records with a non-empty rr list
Rank(i) == Cardinality({j \in NonEmpty : j <= i})

\* the qualifying local maxima of the clean signal
Qualifying == Range(Candidates(clean_rr))

Accepted == Range(peaks)

\* true elapsed time, in ticks, of the interval that ends at peaks[k]
ElapsedTicks(k) == clean_time[peaks[k]] - clean_time[peaks[k - 1]]

InBand(ticks) ==
    /\ min_interval * TicksPerSec <= ticks
    /\ ticks <= max_interval * TicksPerSec

\* the run computed no breathing rate
Degenerate ==
    \/ clean_rr = <<>>
    \/ Len(peaks) < 2
    \/ valid_intervals = <<>>

\* position in peaks of the later peak of the interval behind output row i
RowPeak(i) == valid_peak_indices[order[i]]

-----------------------------------------------------------------------------
(* C1 *)

\* C1: a run whose input loaded and whose computation is degenerate (no
\* clean sample, fewer than two peaks, or no interval inside the band) ends
\* with success status and a written file holding only the header.
C1_DegenerateCompletes ==
    (pc = "exited" /\ Loaded /\ Degenerate) =>
        (exit_status = "success" /\ csv_written /\ csv_rows = <<>>)

-----------------------------------------------------------------------------
(* C2 *)

\* C2: in the written file there is a row for a pair of consecutive peaks
\* exactly when the true elapsed time between the two peaks, fraction
\* included, lies in [2, 10] seconds, and there are no other rows.
C2_RowIffTrueElapsedInBand ==
    csv_written =>
        /\ Len(csv_rows) = Len(valid_peak_indices)
        /\ \A k \in 2..Len(peaks) :
               (k \in Range(valid_peak_indices)) <=> InBand(ElapsedTicks(k))

-----------------------------------------------------------------------------
(* C3 *)

\* C3: every row's bpm is 60 divided by the true elapsed seconds between
\* the row's two peaks, rounded to one decimal (2.5 s gives 24.0).
C3_BpmOfTrueElapsed ==
    csv_written =>
        \A i \in DOMAIN csv_rows :
            csv_rows[i].bpm =
                RoundTenths(60 * TicksPerSec, ElapsedTicks(RowPeak(i)))

-----------------------------------------------------------------------------
(* C4 *)

-----------------------------------------------------------------------------
(* C5 *)

\* C5: the exported rows are sorted by time ascending and rows with equal
\* time keep their detection order (stated for rows that differ in bpm,
\* where the order shows in the file).
C5_SortedAndStable ==
    \A i, j \in DOMAIN csv_rows :
        i < j =>
            /\ TimeLeq(csv_rows[i].time, csv_rows[j].time)
            /\ (csv_rows[i].time = csv_rows[j].time
                    /\ csv_rows[i].bpm # csv_rows[j].bpm)
                   => order[i] < order[j]

-----------------------------------------------------------------------------
(* C6 *)

\* C6: the exported rows are in chronological order: the absolute instant
\* of a row's later peak never exceeds that of a row below it.
C6_Chronological ==
    \A i, j \in DOMAIN csv_rows :
        i < j =>
            clean_time[peaks[RowPeak(i)]] <= clean_time[peaks[RowPeak(j)]]

-----------------------------------------------------------------------------
(* C7 *)

\* C7 as stated: every accepted peak's rr_mean strictly exceeds the 60th
\* percentile of the clean rr_mean sequence.
C7_StrictlyAbovePercentile ==
    \A p \in Accepted :
        100 * clean_rr[p] > PercentileOf(clean_rr, Percentile)

\* C7 as amended: every accepted peak's rr_mean is at least the 60th
\* percentile of the whole clean sequence.  The percentile is stated by
\* rank: the value is not below the interpolated 60th percentile exactly
\* when the samples that do not exceed it, itself excluded, make up at
\* least 60 percent of the n - 1 steps of the sorted sequence.
C7_AtLeastPercentile ==
    \A p \in Accepted :
        100 * (Cardinality({i \in DOMAIN clean_rr :
                               clean_rr[i] <= clean_rr[p]}) - 1)
            >= Percentile * (Len(clean_rr) - 1)

\* an accepted peak whose rr_mean equals the 60th percentile
C7_Witness ==
    /\ pc = "peaks"
    /\ \E p \in Accepted :
           100 * clean_rr[p] = PercentileOf(clean_rr, Percentile)

-----------------------------------------------------------------------------
(* C8 *)

-----------------------------------------------------------------------------
(* C9 *)

-----------------------------------------------------------------------------
(* C10 *)

\* C10: the clean sequence is the subsequence of the records whose rr is a
\* non-empty list, in their order, each with the mean of its own list and
\* its own timestamp; the other records contribute nothing.
C10_CleanIsNonEmptySubsequence ==
    CleanDone =>
        /\ Len(clean_rr) = Cardinality(NonEmpty)
        /\ Len(clean_time) = Cardinality(NonEmpty)
        /\ Len(clean_time_formatted) = Cardinality(NonEmpty)
        /\ \A i \in NonEmpty :
               /\ Len(data[i].rr) * clean_rr[Rank(i)] = Sum(data[i].rr)
               /\ clean_time[Rank(i)] = data[i].ts
               /\ clean_time_formatted[Rank(i)] = time[i]
        /\ \A i \in DOMAIN data \ NonEmpty : rr_mean[i] = NaN
        /\ \A p \in Accepted : p \in 1..Cardinality(NonEmpty)

\* a peak was accepted behind a record without RR data
C10_Witness ==
    /\ pc = "peaks"
    /\ \E i \in DOMAIN data \ NonEmpty :
           \E j \in NonEmpty : i < j /\ Rank(j) \in Accepted

=============================================================================
